---------------------------- MODULE Spec2Model ----------------------------
(***************************************************************************)
(* Model of the hybrid recommendation pipeline of src/app.py               *)
(* (content-based filtering, collaborative filtering, min-max              *)
(* normalisation, hybrid blending, top-N ranking).                         *)
(*                                                                         *)
(* Number representation.  The program computes in IEEE doubles; the model *)
(* computes in fixed point and rounds down:                                *)
(*   ratings                      whole rating points 0..5, or NaN         *)
(*   user_sim, sims               units of 1/SimScale   (1e-6)             *)
(*   cbf_scores, cf_scores and their normalised forms                      *)
(*                                units of 1/ScoreScale (1e-2)             *)
(*   alpha                        units of 1/AlphaScale (the slider step)  *)
(*   hybrid_scores                units of 1/(ScoreScale*AlphaScale)       *)
(* NaN (an empty CSV cell read by pandas) is the value NaN below; every    *)
(* arithmetic operator propagates it and every comparison with it is       *)
(* false, as in IEEE arithmetic.                                           *)
(*                                                                         *)
(* Strings are sequences of one-character strings, so that the program's   *)
(* substring tests, splits and formatting are computed and not assumed.    *)
(***************************************************************************)
EXTENDS Integers, Sequences, FiniteSets, TLC

(***************************************************************************)
(* Bounds of the model.                                                    *)
(***************************************************************************)
MaxKom == 2

MaxMhs == 2

MaxTopN == 3

(***************************************************************************)
(* Program constants and fixed-point scales.                               *)
(***************************************************************************)
NaN == -1

MaxRating == 5

SimScale == 1000000

Epsilon == 1

ScoreScale == 100

AlphaScale == 20

SimpleAlpha == 10

(***************************************************************************)
(* Generic helpers.                                                        *)
(***************************************************************************)
Min2(a, b) == IF a <= b THEN a ELSE b

IsNaN(x) == x = NaN

RECURSIVE SumSeq(_)
SumSeq(s) == IF s = <<>> THEN 0 ELSE Head(s) + SumSeq(Tail(s))

SeqToSet(s) == {s[k] : k \in 1..Len(s)}

IndexOf(s, x) == CHOOSE k \in 1..Len(s) : s[k] = x /\ \A m \in 1..(k-1) : s[m] # x

RECURSIVE ISqrtFrom(_, _)
ISqrtFrom(x, r) ==
    LET nr == (r + x \div r) \div 2
    IN  IF nr >= r THEN r ELSE ISqrtFrom(x, nr)

ISqrt(x) == IF x <= 0 THEN 0 ELSE IF x < 4 THEN 1 ELSE ISqrtFrom(x, x \div 2)

Orderings(S) ==
    {p \in [1..Cardinality(S) -> S] : \A a, b \in 1..Cardinality(S) : a # b => p[a] # p[b]}

(***************************************************************************)
(* Strings: Python's  in , split, strip and f-strings on character         *)
(* sequences.                                                              *)
(***************************************************************************)
StrContains(sub, s) ==
    \E k \in 0..(Len(s) - Len(sub)) : SubSeq(s, k + 1, k + Len(sub)) = sub

HasChar(c, s) == \E k \in 1..Len(s) : s[k] = c

FirstPos(c, s) ==
    IF HasChar(c, s) THEN CHOOSE k \in 1..Len(s) : s[k] = c /\ \A m \in 1..(k-1) : s[m] # c
    ELSE Len(s) + 1

Before(c, s) == SubSeq(s, 1, FirstPos(c, s) - 1)

After(c, s) == SubSeq(s, FirstPos(c, s) + 1, Len(s))

RECURSIVE LStrip(_)
LStrip(s) == IF s # <<>> /\ Head(s) = " " THEN LStrip(Tail(s)) ELSE s

RECURSIVE RStrip(_)
RStrip(s) == IF s # <<>> /\ s[Len(s)] = " " THEN RStrip(SubSeq(s, 1, Len(s) - 1)) ELSE s

Strip(s) == RStrip(LStrip(s))

RatingWord == <<"R", "a", "t", "i", "n", "g">>

StdCol(kom) == RatingWord \o <<"_">> \o kom

BracketCol(label) == RatingWord \o <<" ", "[">> \o label \o <<"]">>

(***************************************************************************)
(* The two input tables.                                                   *)
(*   df_komunitas : sequence of rows [id_komunitas, nama_komunitas,        *)
(*                  konten_komunitas]; a text is a sequence of words.      *)
(*   df_mahasiswa : [columns |-> the columns whose name holds 'Rating',    *)
(*                  in DataFrame order, rows |-> sequence of               *)
(*                  [profil_mahasiswa, cell |-> [column -> value]]].       *)
(***************************************************************************)
KomIds(dfk) == [j \in 1..Len(dfk) |-> dfk[j].id_komunitas]

KomNames(dfk) == [j \in 1..Len(dfk) |-> dfk[j].nama_komunitas]

HasColumn(dfm, col) == \E k \in 1..Len(dfm.columns) : dfm.columns[k] = col

\* df[col] = values : an existing column is overwritten in place, a new one
\* is appended to the columns.
AssignCol(dfm, col, values) ==
    [columns |-> IF HasColumn(dfm, col) THEN dfm.columns ELSE Append(dfm.columns, col),
     rows    |-> [i \in 1..Len(dfm.rows) |->
                    [dfm.rows[i] EXCEPT !.cell =
                        [c \in (DOMAIN dfm.rows[i].cell) \cup {col} |->
                            IF c = col THEN values[i] ELSE dfm.rows[i].cell[c]]]]]

Column(dfm, col) == [i \in 1..Len(dfm.rows) |-> dfm.rows[i].cell[col]]

\* original_rating_cols = [col for col in df_mahasiswa.columns if 'Rating' in col]
OriginalRatingCols(dfm) == SelectSeq(dfm.columns, LAMBDA col : StrContains(RatingWord, col))

(***************************************************************************)
(* standardize_rating_columns                                              *)
(***************************************************************************)
\* col.split('[')[1].split(']')[0].strip()
ParseKomName(col) == Strip(Before("]", Before("[", After("[", col))))

\* rating_to_komunitas, as the sequence of its items in insertion order
RatingToKomunitas(cols) ==
    LET bracketed == SelectSeq(cols, LAMBDA col : HasChar("[", col) /\ HasChar("]", col))
    IN  [k \in 1..Len(bracketed) |-> [col |-> bracketed[k], kom |-> ParseKomName(bracketed[k])]]

KomunitasWord == <<"K", "o", "m", "u", "n", "i", "t", "a", "s">>

NewKomunitasRow(kom) ==
    [id_komunitas |-> kom, nama_komunitas |-> kom, konten_komunitas |-> <<KomunitasWord, kom>>]

\* one iteration of  for kom in unique_komunitas
EnsureKomunitas(dfk, kom) ==
    IF \E j \in 1..Len(dfk) : dfk[j].id_komunitas = kom THEN dfk
    ELSE IF ~ \E j \in 1..Len(dfk) : dfk[j].nama_komunitas = kom
         THEN Append(dfk, NewKomunitasRow(kom))
         ELSE LET kom_idx == IndexOf(KomNames(dfk), kom)
              IN  [dfk EXCEPT ![kom_idx].id_komunitas = kom]

RECURSIVE EnsureAll(_, _)
EnsureAll(dfk, unique_komunitas) ==
    IF unique_komunitas = <<>> THEN dfk
    ELSE EnsureAll(EnsureKomunitas(dfk, Head(unique_komunitas)), Tail(unique_komunitas))

\* for orig_col, kom_name in rating_to_komunitas.items(): ...
\* st = [dfm |-> student table, std |-> standardized_rating_cols]
RECURSIVE MapExisting(_, _, _)
MapExisting(st, items, kom_ids) ==
    IF items = <<>> THEN st
    ELSE LET it == Head(items)
             nx == IF it.kom \in SeqToSet(kom_ids)
                   THEN [dfm |-> AssignCol(st.dfm, StdCol(it.kom), Column(st.dfm, it.col)),
                         std |-> Append(st.std, StdCol(it.kom))]
                   ELSE st
         IN  MapExisting(nx, Tail(items), kom_ids)

\* (variant of AddMissing: a missing rating column filled with the middle
\* rating instead of 0)
RECURSIVE AddMissingNeutral(_, _)
AddMissingNeutral(st, kom_ids) ==
    IF kom_ids = <<>> THEN st
    ELSE LET std_col == StdCol(Head(kom_ids))
             nx == IF ~ HasColumn(st.dfm, std_col)
                   THEN [dfm |-> AssignCol(st.dfm, std_col, [i \in 1..Len(st.dfm.rows) |-> 3]),
                         std |-> Append(st.std, std_col)]
                   ELSE st
         IN  AddMissingNeutral(nx, Tail(kom_ids))

\* for kom_id in kom_ids: add the rating columns that do not exist yet
RECURSIVE AddMissing(_, _)
AddMissing(st, kom_ids) ==
    IF kom_ids = <<>> THEN st
    ELSE LET std_col == StdCol(Head(kom_ids))
             nx == IF ~ HasColumn(st.dfm, std_col)
                   THEN [dfm |-> AssignCol(st.dfm, std_col, [i \in 1..Len(st.dfm.rows) |-> 0]),
                         std |-> Append(st.std, std_col)]
                   ELSE st
         IN  AddMissing(nx, Tail(kom_ids))

\* unique_komunitas = list(set(...)): the iteration order of a set of strings
\* is not fixed by the program, so it is a parameter here.
UniqueKomunitasOrders(cols) ==
    LET items == RatingToKomunitas(cols)
    IN  Orderings({items[k].kom : k \in 1..Len(items)})

StandardizeRatingColumns(dfm, dfk, cols, unique_komunitas) ==
    LET items   == RatingToKomunitas(cols)
        dfk2    == EnsureAll(dfk, unique_komunitas)
        kom_ids == KomIds(dfk2)
        st      == AddMissing(MapExisting([dfm |-> dfm, std |-> <<>>], items, kom_ids), kom_ids)
    IN  [df_mahasiswa |-> st.dfm, df_komunitas |-> dfk2, standardized_rating_cols |-> st.std]

(***************************************************************************)
(* Vectors, cosine similarity (sklearn.metrics.pairwise.cosine_similarity) *)
(***************************************************************************)
RECURSIVE Dot(_, _)
Dot(a, b) == IF a = <<>> THEN 0 ELSE Head(a) * Head(b) + Dot(Tail(a), Tail(b))

\* (variant of Cosine: a zero vector taken to be parallel to everything)
CosineZeroIsOne(a, b, prec) ==
    LET num == Dot(a, b)
        na  == Dot(a, a)
        nb  == Dot(b, b)
    IN  IF na = 0 \/ nb = 0 THEN prec
        ELSE ISqrt(((num * prec) \div na) * ((num * prec) \div nb))

\* cos(a, b) in units of 1/prec, rounded down; a zero vector has cosine 0 to
\* everything (the rows are normalised with a zero norm replaced by 1).
Cosine(a, b, prec) ==
    LET num == Dot(a, b)
        na  == Dot(a, a)
        nb  == Dot(b, b)
    IN  IF na = 0 \/ nb = 0 THEN 0
        ELSE ISqrt(((num * prec) \div na) * ((num * prec) \div nb))

(***************************************************************************)
(* 1. Content-based filtering: TfidfVectorizer fitted on the community     *)
(* contents, students' profiles transformed into the same term space.      *)
(***************************************************************************)
RECURSIVE SetToSeq(_)
SetToSeq(S) == IF S = {} THEN <<>> ELSE LET x == CHOOSE y \in S : TRUE
                                        IN  <<x>> \o SetToSeq(S \ {x})

\* tfidf.fit: the vocabulary is the set of words of the community contents
Vocabulary(corpus) == SetToSeq(UNION {SeqToSet(corpus[j]) : j \in 1..Len(corpus)})

TermFreq(word, text) == Cardinality({k \in 1..Len(text) : text[k] = word})

DocFreq(word, corpus) == Cardinality({j \in 1..Len(corpus) : word \in SeqToSet(corpus[j])})

\* idf = ln((1 + n) / (1 + df)) + 1 (smooth_idf), in units of 1/100
Idf(n, df) ==
    CASE df >= n             -> 100
      [] n = 2 /\ df = 1     -> 140
      [] n = 3 /\ df = 1     -> 169
      [] n = 3 /\ df = 2     -> 128
      [] n = 4 /\ df = 1     -> 191
      [] n = 4 /\ df = 2     -> 151
      [] n = 4 /\ df = 3     -> 122

\* (variant of TfidfVector: one more coordinate, counting the words of the
\* text that are outside the fitted vocabulary)
TfidfVectorWithOov(text, vocab, corpus) ==
    [k \in 1..(Len(vocab) + 1) |->
        IF k <= Len(vocab)
        THEN TermFreq(vocab[k], text) * Idf(Len(corpus), DocFreq(vocab[k], corpus))
        ELSE 100 * Cardinality({x \in 1..Len(text) : text[x] \notin SeqToSet(vocab)})]

\* a word outside the fitted vocabulary has no coordinate
TfidfVector(text, vocab, corpus) ==
    [k \in 1..Len(vocab) |->
        TermFreq(vocab[k], text) * Idf(Len(corpus), DocFreq(vocab[k], corpus))]

CbfScores(dfm, dfk) ==
    LET corpus == [j \in 1..Len(dfk) |-> dfk[j].konten_komunitas]
        vocab  == Vocabulary(corpus)
    IN  [i \in 1..Len(dfm.rows) |-> [j \in 1..Len(dfk) |->
            Cosine(TfidfVector(dfm.rows[i].profil_mahasiswa, vocab, corpus),
                   TfidfVector(corpus[j], vocab, corpus), 1000) \div (1000 \div ScoreScale)]]

(***************************************************************************)
(* 2. Collaborative filtering                                              *)
(***************************************************************************)
FillNa(x) == IF IsNaN(x) THEN 0 ELSE x

\* rating_matrix = df_mahasiswa[standardized_rating_cols].fillna(0)
RatingMatrix(dfm, std_cols) ==
    [i \in 1..Len(dfm.rows) |-> [c \in 1..Len(std_cols) |-> FillNa(dfm.rows[i].cell[std_cols[c]])]]

\* (variant of UserSim: every student equally similar to every other)
UserSimUniform(rm) == [i \in 1..Len(rm) |-> [k \in 1..Len(rm) |-> SimScale]]

\* user_sim = cosine_similarity(rating_matrix), in units of 1/SimScale
UserSim(rm) ==
    [i \in 1..Len(rm) |-> [k \in 1..Len(rm) |-> Cosine(rm[i], rm[k], 10000) * (SimScale \div 10000)]]

\* (variant of Sims: the student's own similarity kept)
SimsKeepSelf(usim, i) == usim[i]

\* sims = user_sim[i].copy(); sims[i] = 0
Sims(usim, i) == [k \in 1..Len(usim) |-> IF k = i THEN 0 ELSE usim[i][k]]

\* denom = sims.sum() + 1e-6
Denom(sims) == SumSeq(sims) + Epsilon

\* (variant of CfScoresUser: the weighted sum not divided by the sum of the
\* similarities)
CfScoresUserUnnormalised(sims, rm) ==
    [c \in 1..Len(rm[1]) |->
        (Dot(sims, [k \in 1..Len(rm) |-> rm[k][c]]) * ScoreScale) \div SimScale]

\* cf_scores_user = (sims @ rating_matrix.values) / denom, units of 1/ScoreScale
CfScoresUser(sims, rm) ==
    [c \in 1..Len(rm[1]) |->
        (Dot(sims, [k \in 1..Len(rm) |-> rm[k][c]]) * ScoreScale) \div Denom(sims)]

\* the positions j of kom_ids the loop writes cf_scores[i, j] for
MultiWrites(kom_ids, std_cols) ==
    {j \in 1..Len(kom_ids) : StdCol(kom_ids[j]) \in SeqToSet(std_cols)}

\* col_idx = standardized_rating_cols.index(std_col)
ColIdx(std_cols, std_col) == IndexOf(std_cols, std_col)

\* simsOf[i] is the vector sims of the iteration for student i
CfMulti(rm, simsOf, kom_ids, std_cols, width) ==
    [i \in 1..Len(rm) |-> [j \in 1..width |->
        IF j \in MultiWrites(kom_ids, std_cols)
        THEN CfScoresUser(simsOf[i], rm)[ColIdx(std_cols, StdCol(kom_ids[j]))]
        ELSE 0]]

\* the single-student branch: the columns col of original_rating_cols with
\* kom_id in col, in order; the last one is the one whose value stays.
SingleMatches(kom_id, cols) == SelectSeq(cols, LAMBDA col : StrContains(kom_id, col))

DivRating(x) == IF IsNaN(x) THEN NaN ELSE (x * ScoreScale) \div MaxRating

CfSingle(dfm, kom_ids, cols, width) ==
    [i \in 1..Len(dfm.rows) |-> [j \in 1..width |->
        LET m == SingleMatches(kom_ids[j], cols)
        IN  IF m = <<>> THEN 0 ELSE DivRating(dfm.rows[i].cell[m[Len(m)]])]]

\* cf_scores has the shape of cbf_scores; writing a column past it raises
\* IndexError.
CfIndexError(multi, kom_ids, std_cols, cols, width) ==
    \E j \in (width + 1)..Len(kom_ids) :
        IF multi THEN j \in MultiWrites(kom_ids, std_cols)
        ELSE SingleMatches(kom_ids[j], cols) # <<>>

ZerosLike(m) == [i \in 1..Len(m) |-> [j \in 1..Len(m[1]) |-> 0]]

\* the CF stage as a whole: what it leaves in rating_matrix, user_sim, sims
\* and cf_scores, and whether it raises
CfStage(dfm, dfk, std_cols, cols, cbf) ==
    LET empty   == std_cols = <<>>
        multi   == Len(dfm.rows) > 1
        rm      == RatingMatrix(dfm, std_cols)
        usim    == UserSim(rm)
        simsOf  == [i \in 1..Len(rm) |-> Sims(usim, i)]
        kom_ids == KomIds(dfk)
        width   == Len(cbf[1])
        raises  == ~ empty /\ CfIndexError(multi, kom_ids, std_cols, cols, width)
    IN  [rating_matrix |-> IF empty THEN <<>> ELSE rm,
         user_sim      |-> IF ~ empty /\ multi THEN usim ELSE <<>>,
         sims          |-> IF ~ empty /\ multi /\ ~ raises THEN simsOf ELSE <<>>,
         cf_scores     |-> IF empty THEN ZerosLike(cbf)
                           ELSE IF raises THEN <<>>
                           ELSE IF multi THEN CfMulti(rm, simsOf, kom_ids, std_cols, width)
                           ELSE CfSingle(dfm, kom_ids, cols, width),
         raises        |-> raises]

(***************************************************************************)
(* 3. Min-max normalisation                                                *)
(***************************************************************************)
\* np.any(scores != 0): NaN != 0 is true
HasNonzero(m) == \E i \in 1..Len(m) : \E j \in 1..Len(m[i]) : m[i][j] # 0

Numbers(m) == {m[i][j] : i \in 1..Len(m), j \in 1..Len(m[1])} \ {NaN}

SetMin(S) == CHOOSE x \in S : \A y \in S : x <= y

SetMax(S) == CHOOSE x \in S : \A y \in S : x >= y

\* MinMaxScaler.transform of one value, data_min = lo and data_max = hi being
\* np.nanmin and np.nanmax of the fitted data: X * scale_ + min_, where a data
\* range of 0 gives scale_ = 1 (sklearn's _handle_zeros_in_scale).  NaN stays
\* NaN; fitted on NaN only, everything is NaN.
Rescale(x, lo, hi) ==
    IF IsNaN(x) THEN NaN
    ELSE IF hi = lo THEN x - lo
    ELSE ((x - lo) * ScoreScale) \div (hi - lo)

\* (variant of MinMaxFitTransform: one feature per column of the matrix)
MinMaxPerColumn(m) ==
    [i \in 1..Len(m) |-> [j \in 1..Len(m[i]) |->
        LET nums == {m[k][j] : k \in 1..Len(m)} \ {NaN}
        IN  IF nums = {} THEN NaN ELSE Rescale(m[i][j], SetMin(nums), SetMax(nums))]]

\* scaler.fit_transform(scores.reshape(-1, 1)).reshape(scores.shape): one
\* feature holding every cell of the matrix
MinMaxFitTransform(m) ==
    LET nums == Numbers(m)
    IN  [i \in 1..Len(m) |-> [j \in 1..Len(m[i]) |->
            IF nums = {} THEN NaN ELSE Rescale(m[i][j], SetMin(nums), SetMax(nums))]]

NormalizeScores(m) == IF HasNonzero(m) THEN MinMaxFitTransform(m) ELSE m

(***************************************************************************)
(* 4. Hybrid score, in units of 1/(ScoreScale * AlphaScale)                *)
(***************************************************************************)
HybridCell(method, a, c, f) ==
    IF IsNaN(c) \/ IsNaN(f) THEN NaN
    ELSE IF method = "weighted" THEN a * c + (AlphaScale - a) * f
    ELSE ((c + f) * AlphaScale) \div 2

HybridScores(method, a, C, F) ==
    [i \in 1..Len(C) |-> [j \in 1..Len(C[i]) |-> HybridCell(method, a, C[i][j], F[i][j])]]

(***************************************************************************)
(* 5. Ranking                                                              *)
(***************************************************************************)
\* the order np.argsort sorts by: NaN after every number
SortsBefore(x, y) == ~ IsNaN(x) /\ (IsNaN(y) \/ x < y)

\* np.argsort(row): the default sort is not stable, so every permutation that
\* sorts the row ascending is a possible result.
Argsort(row) ==
    {p \in Orderings(1..Len(row)) :
        \A a, b \in 1..Len(row) : a < b => ~ SortsBefore(row[p[b]], row[p[a]])}

\* the results of sorting each row of a matrix: a row equal to an earlier row
\* is sorted as that row was (the sort is a function of its input)
RECURSIVE ArgsortRows(_)
ArgsortRows(rows) ==
    IF rows = <<>> THEN {<<>>}
    ELSE LET k     == Len(rows)
             front == SubSeq(rows, 1, k - 1)
             same  == {l \in 1..(k - 1) : rows[l] = rows[k]}
         IN  IF same # {}
             THEN {Append(prev, prev[CHOOSE l \in same : TRUE]) : prev \in ArgsortRows(front)}
             ELSE {Append(prev, p) : prev \in ArgsortRows(front), p \in Argsort(rows[k])}

Reverse(s) == [k \in 1..Len(s) |-> s[Len(s) + 1 - k]]

\* (variant of TopIdx: the slice [:n] left out)
TopIdxNoSlice(sorted, n) == Reverse(sorted)

\* np.argsort(row)[::-1][:n]
TopIdx(sorted, n) == SubSeq(Reverse(sorted), 1, Min2(n, Len(sorted)))

\* the rows of df_tmp for student i
RekoRows(i, idx_top, dfk, hyb, cbfn, cfn) ==
    [r \in 1..Len(idx_top) |->
        [idx          |-> idx_top[r],
         id_komunitas |-> dfk[idx_top[r]].id_komunitas,
         Mahasiswa    |-> i,
         Skor_Hybrid  |-> hyb[i][idx_top[r]],
         CBF_Score    |-> cbfn[i][idx_top[r]],
         CF_Score     |-> cfn[i][idx_top[r]]]]

DetailTopN == 5

(***************************************************************************)
(* Inputs: the uploaded (or manually entered) tables and the sidebar.      *)
(***************************************************************************)
Digits == <<"1", "2", "3", "4", "5", "6", "7", "8", "9">>

\* "distinct": ids K1, K2, ...; "nested": ids K1, K10, K100, ..., as the
\* generated ids KOM_1, KOM_10 are.
InputKomId(scheme, j) ==
    IF scheme = "distinct" THEN <<"K", Digits[j]>>
    ELSE <<"K", "1">> \o [k \in 1..(j - 1) |-> "0"]

InputKomName(j) == <<"N", Digits[j]>>

WordOf(j) == <<"w", Digits[j]>>

CommonWord == <<"i", "t">>

OovWord == <<"a", "r", "t">>

InputKomunitas(scheme, n) ==
    [j \in 1..n |-> [id_komunitas     |-> InputKomId(scheme, j),
                     nama_komunitas   |-> InputKomName(j),
                     konten_komunitas |-> <<WordOf(j), CommonWord>>]]

\* a student's ratings, by the position k of the rating column among c columns
RatingAt(pattern, k, c) ==
    CASE pattern = "zeros" -> 0
      [] pattern = "first" -> IF k = 1 THEN 5 ELSE 0
      [] pattern = "last"  -> IF k = c THEN 5 ELSE 0
      [] pattern = "mixed" -> IF k = 1 THEN 4 ELSE 5
      [] pattern = "blank" -> IF k = 1 THEN NaN ELSE 4

RatingRow(pattern, cols) ==
    [col \in SeqToSet(cols) |-> RatingAt(pattern, IndexOf(cols, col), Len(cols))]

LayoutKinds == {"none", "byId", "byName", "plain", "mixed", "partial", "unknown", "dup", "idAndName"}

\* the rating columns of the student table, in file order
InputRatingCols(kind, dfk) ==
    CASE kind = "none"      -> <<>>
      [] kind = "byId"      -> [j \in 1..Len(dfk) |-> BracketCol(dfk[j].id_komunitas)]
      [] kind = "byName"    -> [j \in 1..Len(dfk) |-> BracketCol(dfk[j].nama_komunitas)]
      [] kind = "plain"     -> [j \in 1..Len(dfk) |-> StdCol(dfk[j].id_komunitas)]
      [] kind = "mixed"     -> [j \in 1..Len(dfk) |-> IF j = 1 THEN StdCol(dfk[j].id_komunitas)
                                                       ELSE BracketCol(dfk[j].id_komunitas)]
      [] kind = "partial"   -> <<BracketCol(dfk[1].id_komunitas)>>
      [] kind = "unknown"   -> <<BracketCol(<<"Z", "Z">>)>>
      [] kind = "dup"       -> <<BracketCol(dfk[1].id_komunitas),
                                 BracketCol(dfk[1].id_komunitas \o <<" ">>)>>
      [] kind = "idAndName" -> <<BracketCol(dfk[1].id_komunitas),
                                 BracketCol(dfk[1].nama_komunitas)>>

\* the students a table is made of: a profile text (empty, words of the
\* communities, a word no community uses) and a pattern of ratings
StudentPool ==
    {[profil_mahasiswa |-> <<>>,                              pattern |-> "zeros"],
     [profil_mahasiswa |-> <<WordOf(1), CommonWord, OovWord>>, pattern |-> "first"],
     [profil_mahasiswa |-> <<WordOf(1), CommonWord, OovWord>>, pattern |-> "last"],
     [profil_mahasiswa |-> <<WordOf(2), OovWord>>,             pattern |-> "mixed"],
     [profil_mahasiswa |-> <<OovWord>>,                        pattern |-> "blank"]}

InputMahasiswa(cols, m) ==
    {[columns |-> cols,
      rows    |-> [i \in 1..m |-> [profil_mahasiswa |-> students[i].profil_mahasiswa,
                                   cell |-> RatingRow(students[i].pattern, cols)]]] :
        students \in [1..m -> StudentPool]}

\* the catalogues and column layouts that are combined
InputCases ==
    {<<"distinct", kind>> : kind \in LayoutKinds} \cup {<<"nested", "byId">>, <<"nested", "mixed">>}

\* the sidebar: alpha slider 0.0 .. 1.0 in steps of 0.05, top-N slider
AlphaValues == {0, 14, 20}

HybridMethods == {"simple", "weighted"}

(***************************************************************************)
(* State                                                                   *)
(***************************************************************************)
VARIABLES pc, df_mahasiswa, df_komunitas, cbf_scores, original_rating_cols,
          standardized_rating_cols, rating_matrix, user_sim, sims, cf_scores,
          cbf_scores_norm, cf_scores_norm, hybrid_method, alpha, hybrid_scores,
          top_n, rekos, recommendations

vars == <<pc, df_mahasiswa, df_komunitas, cbf_scores, original_rating_cols,
          standardized_rating_cols, rating_matrix, user_sim, sims, cf_scores,
          cbf_scores_norm, cf_scores_norm, hybrid_method, alpha, hybrid_scores,
          top_n, rekos, recommendations>>

Init ==
    /\ pc = "loaded"
    /\ \E case \in InputCases : \E n \in 1..MaxKom : \E m \in 1..MaxMhs :
          /\ df_komunitas = InputKomunitas(case[1], n)
          /\ df_mahasiswa \in InputMahasiswa(InputRatingCols(case[2], df_komunitas), m)
    /\ cbf_scores = <<>>
    /\ original_rating_cols = <<>>
    /\ standardized_rating_cols = <<>>
    /\ rating_matrix = <<>>
    /\ user_sim = <<>>
    /\ sims = <<>>
    /\ cf_scores = <<>>
    /\ cbf_scores_norm = <<>>
    /\ cf_scores_norm = <<>>
    /\ hybrid_method = "simple"
    /\ alpha = SimpleAlpha
    /\ hybrid_scores = <<>>
    /\ top_n = 0
    /\ rekos = <<>>
    /\ recommendations = <<>>

(***************************************************************************)
(* The stages of the run, in program order.                                *)
(***************************************************************************)
ContentBasedFiltering ==
    /\ pc = "loaded"
    /\ cbf_scores' = CbfScores(df_mahasiswa, df_komunitas)
    /\ pc' = "cbf"
    /\ UNCHANGED <<df_mahasiswa, df_komunitas, original_rating_cols, standardized_rating_cols,
                   rating_matrix, user_sim, sims, cf_scores, cbf_scores_norm, cf_scores_norm,
                   hybrid_method, alpha, hybrid_scores, top_n, rekos, recommendations>>

StandardizeRatings ==
    /\ pc = "cbf"
    /\ original_rating_cols' = OriginalRatingCols(df_mahasiswa)
    /\ \E unique_komunitas \in UniqueKomunitasOrders(original_rating_cols') :
          LET r == StandardizeRatingColumns(df_mahasiswa, df_komunitas,
                                            original_rating_cols', unique_komunitas)
          IN  /\ df_mahasiswa' = r.df_mahasiswa
              /\ df_komunitas' = r.df_komunitas
              /\ standardized_rating_cols' = r.standardized_rating_cols
    /\ pc' = "standardized"
    /\ UNCHANGED <<cbf_scores, rating_matrix, user_sim, sims, cf_scores, cbf_scores_norm,
                   cf_scores_norm, hybrid_method, alpha, hybrid_scores, top_n, rekos,
                   recommendations>>

\* (variant of CollaborativeFiltering: the IndexError caught, the CF matrix
\* left at zero and the run going on)
CollaborativeFilteringContinue ==
    /\ pc = "standardized"
    /\ LET r == CfStage(df_mahasiswa, df_komunitas, standardized_rating_cols,
                        original_rating_cols, cbf_scores)
       IN  /\ rating_matrix' = r.rating_matrix
           /\ user_sim' = r.user_sim
           /\ sims' = r.sims
           /\ cf_scores' = IF r.raises THEN ZerosLike(cbf_scores) ELSE r.cf_scores
           /\ pc' = "cf"
    /\ UNCHANGED <<df_mahasiswa, df_komunitas, cbf_scores, original_rating_cols,
                   standardized_rating_cols, cbf_scores_norm, cf_scores_norm,
                   hybrid_method, alpha, hybrid_scores, top_n, rekos, recommendations>>

\* sims[i] records the vector sims of the loop iteration for student i
CollaborativeFiltering ==
    /\ pc = "standardized"
    /\ LET r == CfStage(df_mahasiswa, df_komunitas, standardized_rating_cols,
                        original_rating_cols, cbf_scores)
       IN  /\ rating_matrix' = r.rating_matrix
           /\ user_sim' = r.user_sim
           /\ sims' = r.sims
           /\ cf_scores' = r.cf_scores
           /\ pc' = IF r.raises THEN "error" ELSE "cf"
    /\ UNCHANGED <<df_mahasiswa, df_komunitas, cbf_scores, original_rating_cols,
                   standardized_rating_cols, cbf_scores_norm, cf_scores_norm,
                   hybrid_method, alpha, hybrid_scores, top_n, rekos, recommendations>>

\* (variant of Normalization: the scaler working in place on the raw matrices,
\* as MinMaxScaler(copy=False) on the reshaped views would)
NormalizationInPlace ==
    /\ pc = "cf"
    /\ cbf_scores_norm' = NormalizeScores(cbf_scores)
    /\ cf_scores_norm' = NormalizeScores(cf_scores)
    /\ cbf_scores' = cbf_scores_norm'
    /\ cf_scores' = cf_scores_norm'
    /\ pc' = "normalized"
    /\ UNCHANGED <<df_mahasiswa, df_komunitas, original_rating_cols,
                   standardized_rating_cols, rating_matrix, user_sim, sims,
                   hybrid_method, alpha, hybrid_scores, top_n, rekos, recommendations>>

Normalization ==
    /\ pc = "cf"
    /\ cbf_scores_norm' = NormalizeScores(cbf_scores)
    /\ cf_scores_norm' = NormalizeScores(cf_scores)
    /\ pc' = "normalized"
    /\ UNCHANGED <<df_mahasiswa, df_komunitas, cbf_scores, original_rating_cols,
                   standardized_rating_cols, rating_matrix, user_sim, sims, cf_scores,
                   hybrid_method, alpha, hybrid_scores, top_n, rekos, recommendations>>

\* (variant of HybridScoring: the blend not waiting for the normaliser)
HybridScoringUnordered ==
    /\ pc \in {"cf", "normalized"}
    /\ \E method \in HybridMethods :
       \E a \in (IF method = "weighted" THEN AlphaValues ELSE {SimpleAlpha}) :
          /\ hybrid_method' = method
          /\ alpha' = a
          /\ hybrid_scores' = HybridScores(method, a, cbf_scores_norm, cf_scores_norm)
    /\ pc' = "hybrid"
    /\ UNCHANGED <<df_mahasiswa, df_komunitas, cbf_scores, original_rating_cols,
                   standardized_rating_cols, rating_matrix, user_sim, sims, cf_scores,
                   cbf_scores_norm, cf_scores_norm, top_n, rekos, recommendations>>

\* the sidebar's hybrid_method and alpha are read here for the first time
HybridScoring ==
    /\ pc = "normalized"
    /\ \E method \in HybridMethods :
       \E a \in (IF method = "weighted" THEN AlphaValues ELSE {SimpleAlpha}) :
          /\ hybrid_method' = method
          /\ alpha' = a
          /\ hybrid_scores' = HybridScores(method, a, cbf_scores_norm, cf_scores_norm)
    /\ pc' = "hybrid"
    /\ UNCHANGED <<df_mahasiswa, df_komunitas, cbf_scores, original_rating_cols,
                   standardized_rating_cols, rating_matrix, user_sim, sims, cf_scores,
                   cbf_scores_norm, cf_scores_norm, top_n, rekos, recommendations>>

\* the sidebar's top_n is read here for the first time; the same row is
\* sorted the same way each time it is sorted.
GenerateRecommendations ==
    /\ pc = "hybrid"
    /\ \E n \in 1..MaxTopN : \E sorted \in ArgsortRows(hybrid_scores) :
          /\ top_n' = n
          /\ rekos' = [i \in 1..Len(sorted) |->
                          RekoRows(i, TopIdx(sorted[i], n), df_komunitas, hybrid_scores,
                                   cbf_scores_norm, cf_scores_norm)]
          /\ recommendations' = [i \in 1..Len(sorted) |->
                          [r \in 1..Min2(DetailTopN, Len(sorted[i])) |->
                              df_komunitas[TopIdx(sorted[i], DetailTopN)[r]].id_komunitas]]
    /\ pc' = "done"
    /\ UNCHANGED <<df_mahasiswa, df_komunitas, cbf_scores, original_rating_cols,
                   standardized_rating_cols, rating_matrix, user_sim, sims, cf_scores,
                   cbf_scores_norm, cf_scores_norm, hybrid_method, alpha, hybrid_scores>>

Next ==
    \/ ContentBasedFiltering
    \/ StandardizeRatings
    \/ CollaborativeFiltering
    \/ Normalization
    \/ HybridScoring
    \/ GenerateRecommendations

Spec == Init /\ [][Next]_vars

(***************************************************************************)
(* The score matrices the page has shown so far ("Tampilkan Langkah        *)
(* Perhitungan" ticked, its default): each stage writes its matrix to the  *)
(* page when it completes; a stage that raises writes nothing.             *)
(***************************************************************************)
ShownScores ==
    (IF pc \in {"cbf", "standardized", "error", "cf", "normalized", "hybrid", "done"}
        THEN {"cbf_scores"} ELSE {})
    \cup (IF pc \in {"cf", "normalized", "hybrid", "done"} THEN {"cf_scores"} ELSE {})
    \cup (IF pc \in {"normalized", "hybrid", "done"}
        THEN {"cbf_scores_norm", "cf_scores_norm"} ELSE {})
    \cup (IF pc \in {"hybrid", "done"} THEN {"hybrid_scores"} ELSE {})

(***************************************************************************)
(* 7. Detailed recommendation display: what is shown for the student the   *)
(* select box holds, read off the finished run (it writes nothing).        *)
(***************************************************************************)
\* df_komunitas[df_komunitas['id_komunitas'] == komunitas_id].index[0]
KomIdx(dfk, komunitas_id) == IndexOf(KomIds(dfk), komunitas_id)

\* the entries shown for selected_user (a position of the student table),
\* in the order of recommendations[selected_user]
DetailDisplay(selected_user) ==
    LET shown == SelectSeq(recommendations[selected_user],
                           LAMBDA komunitas_id : komunitas_id \in SeqToSet(KomIds(df_komunitas)))
    IN  [r \in 1..Len(shown) |->
            LET kom_idx == KomIdx(df_komunitas, shown[r])
            IN  [komunitas_id |-> shown[r],
                 kom_idx      |-> kom_idx,
                 hybrid_score |-> hybrid_scores[selected_user][kom_idx],
                 cbf_score    |-> cbf_scores_norm[selected_user][kom_idx],
                 cf_score     |-> cf_scores_norm[selected_user][kom_idx]]]

(***************************************************************************)
(* Runs on a table of three students whose ratings are concentrated on one *)
(* community each (or absent), the other stages being the same.            *)
(***************************************************************************)
ThreeStudentPool == {st \in StudentPool : st.pattern \in {"zeros", "first", "last"}}

InputThreeMahasiswa(cols) ==
    {[columns |-> cols,
      rows    |-> [i \in 1..3 |-> [profil_mahasiswa |-> students[i].profil_mahasiswa,
                                   cell |-> RatingRow(students[i].pattern, cols)]]] :
        students \in [1..3 -> ThreeStudentPool]}

InitThree ==
    /\ pc = "loaded"
    /\ \E case \in InputCases : \E n \in 1..MaxKom :
          /\ df_komunitas = InputKomunitas(case[1], n)
          /\ df_mahasiswa \in InputThreeMahasiswa(InputRatingCols(case[2], df_komunitas))
    /\ cbf_scores = <<>>
    /\ original_rating_cols = <<>>
    /\ standardized_rating_cols = <<>>
    /\ rating_matrix = <<>>
    /\ user_sim = <<>>
    /\ sims = <<>>
    /\ cf_scores = <<>>
    /\ cbf_scores_norm = <<>>
    /\ cf_scores_norm = <<>>
    /\ hybrid_method = "simple"
    /\ alpha = SimpleAlpha
    /\ hybrid_scores = <<>>
    /\ top_n = 0
    /\ rekos = <<>>
    /\ recommendations = <<>>

SpecThree == InitThree /\ [][Next]_vars

(***************************************************************************)
(* Vocabulary of the properties.                                           *)
(***************************************************************************)
\* comparisons of scores as the program's arithmetic makes them: false as soon
\* as one side is NaN
NumEq(x, y) == ~ IsNaN(x) /\ ~ IsNaN(y) /\ x = y

NumLeq(x, y) == ~ IsNaN(x) /\ ~ IsNaN(y) /\ x <= y

Normalized == pc \in {"normalized", "hybrid", "done"}

Blended == pc \in {"hybrid", "done"}

Ranked == pc = "done"

NKom == Len(df_komunitas)

NMhs == Len(df_mahasiswa.rows)

\* the catalogue positions listed for student i, in list order
Listed(i) == [r \in 1..Len(rekos[i]) |-> rekos[i][r].idx]

InList(i, j) == \E r \in 1..Len(rekos[i]) : rekos[i][r].idx = j

PosInList(i, j) == CHOOSE r \in 1..Len(rekos[i]) : rekos[i][r].idx = j

(***************************************************************************)
(* C1.  Tie-break of the ranker: for every student i and every two         *)
(* communities a < b (catalogue positions) with exactly equal blended      *)
(* score, if b is in the student's list then a is in it too and is listed  *)
(* before b (so a cut between the two keeps the lower catalogue index).    *)
(* The program sorts ascending and reverses, which does not keep this.     *)
(***************************************************************************)
C1_TieBreakByCatalogOrder ==
    Ranked =>
        \A i \in 1..Len(rekos) : \A a, b \in 1..Len(hybrid_scores[i]) :
            (a < b /\ NumEq(hybrid_scores[i][a], hybrid_scores[i][b]) /\ InList(i, b))
                => (InList(i, a) /\ PosInList(i, a) < PosInList(i, b))

(***************************************************************************)
(* C2.  For every student the list holds pairwise distinct communities, is *)
(* ordered by non-increasing blended score, and every community left out   *)
(* has a blended score <= the score of every listed community.  A NaN      *)
(* score (C16) is put first by the program and breaks the order.           *)
(***************************************************************************)
C2_ListIsTopN ==
    Ranked =>
        \A i \in 1..Len(rekos) :
            /\ \A r, q \in 1..Len(rekos[i]) : r # q => rekos[i][r].idx # rekos[i][q].idx
            /\ \A r \in 1..(Len(rekos[i]) - 1) :
                  NumLeq(rekos[i][r + 1].Skor_Hybrid, rekos[i][r].Skor_Hybrid)
            /\ \A j \in 1..Len(hybrid_scores[i]) : \A r \in 1..Len(rekos[i]) :
                  ~ InList(i, j) => NumLeq(hybrid_scores[i][j], rekos[i][r].Skor_Hybrid)

(***************************************************************************)
(* C3.  For every student the length of the recommendation list is         *)
(* min(top-N, number of communities of the catalogue), for every           *)
(* configured top-N >= 1; with top-N at or above the catalogue size every  *)
(* community of the catalogue is listed.                                   *)
(***************************************************************************)
C3_ListLength ==
    Ranked =>
        /\ top_n >= 1
        /\ Len(rekos) = NMhs
        /\ \A i \in 1..Len(rekos) :
              /\ Len(rekos[i]) = Min2(top_n, NKom)
              /\ top_n >= NKom => SeqToSet(Listed(i)) = 1..NKom

C3_Witness ==
    /\ Ranked
    /\ NKom >= 2
    /\ top_n > NKom
    /\ \A i \in 1..Len(rekos) : Len(rekos[i]) = NKom

(***************************************************************************)
(* C4.  Hybrid blend: for every cell and both blend modes                  *)
(* Hybrid = w * CBF_norm + (1 - w) * CF_norm, with w = 0.5 in the simple   *)
(* average; w = 1.0 gives Hybrid = CBF_norm and w = 0.0 gives              *)
(* Hybrid = CF_norm, cell for cell.  (Scores in units of 1/ScoreScale,     *)
(* hybrid scores in units of 1/(ScoreScale*AlphaScale).)  A NaN cell of    *)
(* CF_norm (C16) makes the hybrid cell NaN whatever w is.                  *)
(***************************************************************************)
C4_HybridBlend ==
    Blended =>
        /\ hybrid_method = "simple" => alpha = SimpleAlpha
        /\ \A i \in 1..Len(hybrid_scores) : \A j \in 1..Len(hybrid_scores[i]) :
              /\ NumEq(hybrid_scores[i][j],
                       alpha * cbf_scores_norm[i][j] + (AlphaScale - alpha) * cf_scores_norm[i][j])
              /\ alpha = AlphaScale =>
                    NumEq(hybrid_scores[i][j], AlphaScale * cbf_scores_norm[i][j])
              /\ alpha = 0 =>
                    NumEq(hybrid_scores[i][j], AlphaScale * cf_scores_norm[i][j])

(***************************************************************************)
(* C5.  Pass-through of the normaliser on constant input: when every       *)
(* entry of a raw score matrix (CBF or CF) is the same value v, also a     *)
(* non-zero v, the normalised matrix equals the raw matrix.  The program   *)
(* passes through the all-zero matrix only.                                *)
(***************************************************************************)
C5_ConstantPassThrough ==
    Normalized =>
        \A pair \in {<<cbf_scores, cbf_scores_norm>>, <<cf_scores, cf_scores_norm>>} :
            (\E v \in Numbers(pair[1]) : \A i \in 1..Len(pair[1]) :
                 \A j \in 1..Len(pair[1][i]) : pair[1][i][j] = v)
                => pair[2] = pair[1]

(***************************************************************************)
(* C6.  Every entry of the normalised CBF matrix and of the normalised CF  *)
(* matrix lies in [0,1].  A missing rating of a single student (C16) gives *)
(* a NaN entry.                                                            *)
(***************************************************************************)
C6_NormalizedRange ==
    Normalized =>
        \A m \in {cbf_scores_norm, cf_scores_norm} :
            \A i \in 1..Len(m) : \A j \in 1..Len(m[i]) :
                NumLeq(0, m[i][j]) /\ NumLeq(m[i][j], ScoreScale)

(***************************************************************************)
(* C7.  Normalisation is global and order-preserving: for any two cells    *)
(* (i,j) and (k,l) of one raw matrix (CBF or CF), raw[i,j] <= raw[k,l]     *)
(* implies norm[i,j] <= norm[k,l]; and whenever the maximum M of the       *)
(* entries of the whole matrix exceeds their minimum m, every entry is     *)
(* norm[i,j] = (raw[i,j] - m) / (M - m)  (in units of 1/ScoreScale,        *)
(* rounded down; m and M over the defined entries).                        *)
(***************************************************************************)
C7_GlobalOrderPreserving ==
    Normalized =>
        \A pair \in {<<cbf_scores, cbf_scores_norm>>, <<cf_scores, cf_scores_norm>>} :
            LET raw   == pair[1]
                norm  == pair[2]
                cells == (1..Len(raw)) \X (1..Len(raw[1]))
                nums  == {raw[c[1]][c[2]] : c \in cells} \ {NaN}
            IN  /\ \A c, d \in cells :
                      NumLeq(raw[c[1]][c[2]], raw[d[1]][d[2]])
                          => NumLeq(norm[c[1]][c[2]], norm[d[1]][d[2]])
                /\ \A m, M \in nums :
                      ((\A y \in nums : m <= y /\ y <= M) /\ M > m)
                          => \A c \in cells :
                                 ~ IsNaN(raw[c[1]][c[2]])
                                     => norm[c[1]][c[2]]
                                            = ((raw[c[1]][c[2]] - m) * ScoreScale) \div (M - m)

\* a CF matrix whose extreme and an intermediate value sit in different rows
\* and different columns
C7_Witness ==
    /\ Normalized
    /\ \E i, k \in 1..Len(cf_scores) : \E j, l \in 1..Len(cf_scores[1]) :
          /\ i # k /\ j # l
          /\ ~ IsNaN(cf_scores[i][j]) /\ ~ IsNaN(cf_scores[k][l])
          /\ cf_scores[i][j] < cf_scores[k][l]
          /\ cf_scores_norm[k][l] > 0 /\ cf_scores_norm[k][l] < ScoreScale
          /\ cf_scores_norm[i][j] = 0

(***************************************************************************)
(* C8.  Multi-student CF prediction: with at least 2 students, for every   *)
(* student i and every community j that has a column in the rating matrix, *)
(* the raw CF score is                                                     *)
(*   (sum over k # i of sim(i,k) * rating(k,j))                            *)
(*     / (sum over k # i of sim(i,k) + epsilon),   epsilon = 1e-6,         *)
(* sim being the cosine similarity of the students' rating vectors and     *)
(* rating(k,j) student k's rating in the column Rating_<id of j>, a        *)
(* missing one counting 0.  Stated of the CF matrix as the CF stage leaves  *)
(* it; no later stage writes it.                                           *)
(***************************************************************************)
C8_MultiStudentPrediction ==
    (pc = "cf" /\ NMhs >= 2) =>
        \A i \in 1..NMhs : \A j \in 1..Len(cf_scores[i]) :
            LET col       == StdCol(df_komunitas[j].id_komunitas)
                vec(k)    == [c \in 1..Len(standardized_rating_cols) |->
                                 FillNa(df_mahasiswa.rows[k].cell[standardized_rating_cols[c]])]
                sim(k)    == Cosine(vec(i), vec(k), 10000) * (SimScale \div 10000)
                rating(k) == FillNa(df_mahasiswa.rows[k].cell[col])
                num       == SumSeq([k \in 1..NMhs |-> IF k = i THEN 0 ELSE sim(k) * rating(k)])
                den       == SumSeq([k \in 1..NMhs |-> IF k = i THEN 0 ELSE sim(k)]) + Epsilon
            IN  col \in SeqToSet(standardized_rating_cols)
                    => cf_scores[i][j] = (num * ScoreScale) \div den

\* a student with a peer neither identical nor orthogonal in ratings, and a
\* non-zero prediction
C8_Witness ==
    /\ pc = "cf"
    /\ NMhs >= 2
    /\ user_sim # <<>>
    /\ \E i, k \in 1..NMhs : \E j \in 1..Len(cf_scores[i]) :
          /\ i # k
          /\ user_sim[i][k] > 0 /\ user_sim[i][k] < SimScale
          /\ StdCol(df_komunitas[j].id_komunitas) \in SeqToSet(standardized_rating_cols)
          /\ cf_scores[i][j] > 0

(***************************************************************************)
(* C9.  Single-student CF fallback: with exactly one student, for every    *)
(* community j of the catalogue the raw CF score is the student's rating   *)
(* in a rating column that refers to community j (by its id or its name),  *)
(* divided by 5.0, and 0 when the student gave no rating to community j.   *)
(* The program matches columns by substring and divides an empty cell, and *)
(* computes nothing when all columns are already named Rating_<id>.        *)
(***************************************************************************)
C9_SingleStudentFallback ==
    (pc \in {"cf", "normalized", "hybrid", "done"} /\ NMhs = 1) =>
        \A j \in 1..Len(cf_scores[1]) :
            LET label(col) == IF HasChar("[", col) /\ HasChar("]", col)
                              THEN ParseKomName(col)
                              ELSE SubSeq(col, Len(StdCol(<<>>)) + 1, Len(col))
                refers     == {c \in 1..Len(original_rating_cols) :
                                  label(original_rating_cols[c]) \in
                                      {df_komunitas[j].id_komunitas, df_komunitas[j].nama_komunitas}}
                given      == {df_mahasiswa.rows[1].cell[original_rating_cols[c]] : c \in refers}
                                  \ {NaN}
            IN  IF given = {} THEN cf_scores[1][j] = 0
                ELSE \E x \in given : cf_scores[1][j] = (x * ScoreScale) \div MaxRating

(***************************************************************************)
(* C10.  The student-to-student similarity used by CF is symmetric,        *)
(* sim(i,k) = sim(k,i) for all students i, k, and the similarity of each   *)
(* student with itself that enters the prediction of that student is 0     *)
(* (the other similarities entering it are those of the matrix).           *)
(***************************************************************************)
C10_SimilaritySymmetric ==
    (pc \in {"cf", "normalized", "hybrid", "done"} /\ user_sim # <<>>) =>
        /\ Len(user_sim) = NMhs /\ Len(sims) = NMhs
        /\ \A i, k \in 1..NMhs :
              /\ user_sim[i][k] = user_sim[k][i]
              /\ sims[i][k] = IF i = k THEN 0 ELSE user_sim[i][k]

\* two students with a similarity strictly between 0 and 1, each with
\* similarity 1 to itself before the exclusion
C10_Witness ==
    /\ pc = "cf"
    /\ user_sim # <<>>
    /\ \E i, k \in 1..NMhs :
          /\ i # k
          /\ user_sim[i][k] > 0 /\ user_sim[i][k] < SimScale
          /\ user_sim[i][i] = SimScale
          /\ sims[i][i] = 0

(***************************************************************************)
(* C11.  Three-student scenario: in a run of three students A, B, C whose  *)
(* rating vectors are A = B = (X = 5, Y = 0) and C = (X = 0, Y = 5),       *)
(* nothing else rated, sim(A,B) > sim(A,C), and the raw CF prediction for  *)
(* A on Y is 0 and strictly lower than the raw CF prediction for A on X.   *)
(* X and Y are communities with a column in the rating matrix.             *)
(***************************************************************************)
C11_ThreeStudentScenario ==
    (pc = "cf" /\ NMhs = 3 /\ user_sim # <<>>) =>
        \A A, B, C \in 1..3 : \A X, Y \in 1..Len(cf_scores[1]) :
            LET colX       == StdCol(df_komunitas[X].id_komunitas)
                colY       == StdCol(df_komunitas[Y].id_komunitas)
                rating(k, col) == FillNa(df_mahasiswa.rows[k].cell[col])
                only(k, col) == \A c \in 1..Len(standardized_rating_cols) :
                                   standardized_rating_cols[c] # col => rating_matrix[k][c] = 0
            IN  ( /\ A # B /\ A # C /\ B # C /\ X # Y
                  /\ {colX, colY} \subseteq SeqToSet(standardized_rating_cols)
                  /\ rating(A, colX) = 5 /\ rating(B, colX) = 5 /\ rating(C, colX) = 0
                  /\ rating(A, colY) = 0 /\ rating(B, colY) = 0 /\ rating(C, colY) = 5
                  /\ only(A, colX) /\ only(B, colX) /\ only(C, colY) )
                => /\ user_sim[A][B] > user_sim[A][C]
                   /\ cf_scores[A][Y] = 0
                   /\ cf_scores[A][Y] < cf_scores[A][X]

\* the scenario itself: students 1 and 2 rate the first community 5, student 3
\* the second one, and the prediction for student 1 on the first is positive
C11_Witness ==
    /\ pc = "cf"
    /\ NMhs = 3
    /\ Len(standardized_rating_cols) = 2
    /\ rating_matrix = <<<<5, 0>>, <<5, 0>>, <<0, 5>>>>
    /\ user_sim # <<>>
    /\ user_sim[1][2] = SimScale /\ user_sim[1][3] = 0
    /\ cf_scores[1][1] > 0 /\ cf_scores[1][2] = 0

(***************************************************************************)
(* C12.  In a run with at least 2 students, a student whose ratings are    *)
(* all zero (or absent) has similarity 0 to every other student and raw CF *)
(* score 0 for every community, and the CF stage does not fail on it: the  *)
(* only failure of the stage is the write past the score matrix for a      *)
(* community that standardization added to the catalogue.                  *)
(***************************************************************************)
C12_ZeroRatingStudent ==
    /\ (pc = "cf" /\ NMhs >= 2) =>
          \A i \in 1..NMhs :
              (\A c \in 1..Len(original_rating_cols) :
                   FillNa(df_mahasiswa.rows[i].cell[original_rating_cols[c]]) = 0)
                  => /\ \A j \in 1..Len(cf_scores[i]) : cf_scores[i][j] = 0
                     /\ user_sim # <<>> =>
                           \A k \in 1..NMhs : user_sim[i][k] = 0 /\ user_sim[k][i] = 0
    /\ pc = "error" => Len(df_komunitas) > Len(cbf_scores[1])

\* a student without ratings next to one with ratings, similarities computed
C12_Witness ==
    /\ pc = "cf"
    /\ user_sim # <<>>
    /\ \E i, k \in 1..NMhs :
          /\ i # k
          /\ \A c \in 1..Len(rating_matrix[i]) : rating_matrix[i][c] = 0
          /\ \E c \in 1..Len(rating_matrix[k]) : rating_matrix[k][c] > 0
          /\ user_sim[k][k] = SimScale
          /\ user_sim[i][k] = 0
          /\ \A j \in 1..Len(cf_scores[i]) : cf_scores[i][j] = 0

\* the community label a rating column of the input carries: the bracketed
\* text, or what follows "Rating_"
LabelOf(col) ==
    IF HasChar("[", col) /\ HasChar("]", col) THEN ParseKomName(col)
    ELSE SubSeq(col, Len(StdCol(<<>>)) + 1, Len(col))

\* the input rating columns (positions in file order) that refer to the
\* community at catalogue position j, by its id or by its name
RefersTo(j) ==
    {c \in 1..Len(original_rating_cols) :
        LabelOf(original_rating_cols[c]) \in
            {df_komunitas[j].id_komunitas, df_komunitas[j].nama_komunitas}}

\* student k's rating of the community at catalogue position j: the cell of
\* the first column referring to it, 0 when there is none or the cell is empty
RatingOf(k, j) ==
    IF RefersTo(j) = {} THEN 0
    ELSE LET c == CHOOSE x \in RefersTo(j) : \A y \in RefersTo(j) : x <= y
         IN  FillNa(df_mahasiswa.rows[k].cell[original_rating_cols[c]])

(***************************************************************************)
(* C13.  CF output alignment (runs of at least 2 students): the CF matrix  *)
(* has one column per catalogue community, in catalogue order; column j    *)
(* holds the prediction computed from the ratings given to the community   *)
(* at catalogue position j (the similarity-weighted mean over the other    *)
(* students of their rating of that community), and a community that no    *)
(* student rated has CF score 0 for every student.  The program leaves the *)
(* column of a community at 0 when its rating column is already named      *)
(* Rating_<id>.                                                            *)
(***************************************************************************)
C13_CfAlignment ==
    (pc = "cf" /\ NMhs >= 2) =>
        \A i \in 1..NMhs :
            /\ Len(cf_scores[i]) = NKom
            /\ \A j \in 1..Len(cf_scores[i]) :
                  LET vec(k) == [x \in 1..NKom |-> RatingOf(k, x)]
                      sim(k) == Cosine(vec(i), vec(k), 10000) * (SimScale \div 10000)
                      num    == SumSeq([k \in 1..NMhs |->
                                           IF k = i THEN 0 ELSE sim(k) * RatingOf(k, j)])
                      den    == SumSeq([k \in 1..NMhs |-> IF k = i THEN 0 ELSE sim(k)]) + Epsilon
                  IN  /\ cf_scores[i][j] = (num * ScoreScale) \div den
                      /\ (\A k \in 1..NMhs : RatingOf(k, j) = 0) => cf_scores[i][j] = 0

(***************************************************************************)
(* C14.  Every reported row is cell-consistent: for the student i and the  *)
(* community j of a row of the recommendation table, Skor_Hybrid,          *)
(* CBF_Score and CF_Score are Hybrid[i,j], CBF_norm[i,j] and CF_norm[i,j], *)
(* and Skor_Hybrid = w * CBF_Score + (1 - w) * CF_Score; the same for the  *)
(* scores of the detail display of every student.  A row whose CF score is *)
(* NaN (C16) does not satisfy the equation.                                *)
(***************************************************************************)
C14_RowsCellConsistent ==
    Ranked =>
        \A i \in 1..Len(rekos) :
            /\ \A r \in 1..Len(rekos[i]) :
                  LET row == rekos[i][r]
                      j   == row.idx
                  IN  /\ row.id_komunitas = df_komunitas[j].id_komunitas
                      /\ row.Skor_Hybrid = hybrid_scores[i][j]
                      /\ row.CBF_Score = cbf_scores_norm[i][j]
                      /\ row.CF_Score = cf_scores_norm[i][j]
                      /\ NumEq(row.Skor_Hybrid,
                               alpha * row.CBF_Score + (AlphaScale - alpha) * row.CF_Score)
            /\ \A r \in 1..Len(DetailDisplay(i)) :
                  LET row == DetailDisplay(i)[r]
                      j   == row.kom_idx
                  IN  /\ row.komunitas_id = df_komunitas[j].id_komunitas
                      /\ row.hybrid_score = hybrid_scores[i][j]
                      /\ row.cbf_score = cbf_scores_norm[i][j]
                      /\ row.cf_score = cf_scores_norm[i][j]
                      /\ NumEq(row.hybrid_score,
                               alpha * row.cbf_score + (AlphaScale - alpha) * row.cf_score)

(***************************************************************************)
(* C15.  Determinism: two runs on identical student table, community table *)
(* and configuration give identical matrices and lists.  Stated on the     *)
(* state the CF scorer starts from: whatever order list(set(...)) yields   *)
(* the rating labels in, rating standardization and the CF stage leave the *)
(* same catalogue, the same rating columns and the same raw CF matrix (or  *)
(* fail alike).  The order of a set of strings changes between processes,  *)
(* and with it the outcome.                                                *)
(***************************************************************************)
C15_Deterministic ==
    pc = "cbf" =>
        LET cols   == OriginalRatingCols(df_mahasiswa)
            run(o) == LET st == StandardizeRatingColumns(df_mahasiswa, df_komunitas, cols, o)
                      IN  <<st.df_komunitas, st.standardized_rating_cols,
                            CfStage(st.df_mahasiswa, st.df_komunitas,
                                    st.standardized_rating_cols, cols, cbf_scores)>>
        IN  \A o1, o2 \in UniqueKomunitasOrders(cols) : run(o1) = run(o2)

(***************************************************************************)
(* C16.  Missing ratings count as 0 in both CF strategies: an empty cell   *)
(* is 0 in the rating matrix; with a single student, a community whose     *)
(* rating cell is empty has raw CF score 0, never an undefined value; and  *)
(* such a community is not ranked above a community the student rated      *)
(* positively whose content score is at least as high.  The single-student *)
(* branch divides the empty cell itself, which gives NaN, and NaN ranks    *)
(* first.                                                                  *)
(***************************************************************************)
C16_MissingRatingIsZero ==
    LET missing(k, j) == /\ RefersTo(j) # {}
                         /\ \A c \in RefersTo(j) :
                               IsNaN(df_mahasiswa.rows[k].cell[original_rating_cols[c]])
    IN  /\ pc \in {"cf", "normalized", "hybrid", "done"} =>
              /\ \A i \in 1..Len(rating_matrix) : \A c \in 1..Len(rating_matrix[i]) :
                    rating_matrix[i][c] =
                        FillNa(df_mahasiswa.rows[i].cell[standardized_rating_cols[c]])
              /\ \A i \in 1..Len(cf_scores) : \A j \in 1..Len(cf_scores[i]) :
                    /\ ~ IsNaN(cf_scores[i][j])
                    /\ (NMhs = 1 /\ missing(i, j)) => cf_scores[i][j] = 0
        /\ (Ranked /\ NMhs = 1) =>
              \A a, b \in 1..Len(hybrid_scores[1]) :
                  ( /\ missing(1, a)
                    /\ RatingOf(1, b) > 0
                    /\ cbf_scores_norm[1][a] <= cbf_scores_norm[1][b]
                    /\ InList(1, a) )
                  => (InList(1, b) /\ PosInList(1, b) < PosInList(1, a))

(***************************************************************************)
(* C17.  Rating matrix shape: after rating standardization the rating      *)
(* matrix has exactly one column for every community of the catalogue (no  *)
(* community missing, none twice), holding the students' ratings of that   *)
(* community, or zeros when the input has no rating for it, whatever the   *)
(* form of the input column names.  Input columns already named            *)
(* Rating_<id> are left out of the matrix, and two input columns naming    *)
(* the same community give two columns.                                    *)
(***************************************************************************)
C17_RatingMatrixShape ==
    pc = "standardized" =>
        /\ Len(standardized_rating_cols) = NKom
        /\ \A j \in 1..NKom :
              /\ Cardinality({c \in 1..Len(standardized_rating_cols) :
                     standardized_rating_cols[c] = StdCol(df_komunitas[j].id_komunitas)}) = 1
              /\ \A k \in 1..NMhs :
                    FillNa(df_mahasiswa.rows[k].cell[StdCol(df_komunitas[j].id_komunitas)])
                        = RatingOf(k, j)

\* a rating column of the student table whose label is no id and no name of
\* any catalogue
UnalignedLabel ==
    \E c \in 1..Len(df_mahasiswa.columns) :
        LabelOf(df_mahasiswa.columns[c]) \notin
            {InputKomId(scheme, j) : scheme \in {"distinct", "nested"}, j \in 1..Len(Digits)}
                \cup {InputKomName(j) : j \in 1..Len(Digits)}

(***************************************************************************)
(* C18.  When a rating column names a community that is neither an id nor  *)
(* a name of the catalogue, the run is aborted with an error: it reaches   *)
(* no stage after rating standardization, and once it has failed it has    *)
(* returned no score matrix and no recommendation list.  The program adds  *)
(* the label to the catalogue as a new community and fails only in the CF  *)
(* stage, after the CBF matrix has been computed and shown.                *)
(***************************************************************************)
C18_AbortOnUnalignedLabel ==
    UnalignedLabel =>
        /\ pc \notin {"cf", "normalized", "hybrid", "done"}
        /\ pc = "error" =>
              /\ ShownScores = {}
              /\ rekos = <<>>
              /\ recommendations = <<>>

(***************************************************************************)
(* C19.  Community identity is stable and unique: no step of the run       *)
(* changes the id_komunitas a community of the catalogue has, and at every *)
(* moment no two communities share an id_komunitas.  Rating                *)
(* standardization overwrites the id of a community with its name when a   *)
(* rating column is labelled with the name.                                *)
(***************************************************************************)
C19_IdentityStableUnique ==
    /\ [](\A a, b \in 1..Len(df_komunitas) :
             a # b => df_komunitas[a].id_komunitas # df_komunitas[b].id_komunitas)
    /\ [][\A j \in 1..Len(df_komunitas) :
             df_komunitas'[j].id_komunitas = df_komunitas[j].id_komunitas]_vars

(***************************************************************************)
(* C20.  Content scoring uses the term space of the community contents     *)
(* only: the words of a student profile that occur in no community content *)
(* contribute nothing (the scores are those of the profile with these      *)
(* words struck out), and a student whose profile is empty or has no word  *)
(* of the community vocabulary has CBF similarity 0 to every community;    *)
(* the CBF stage completes for every such profile.                         *)
(***************************************************************************)
C20_OutOfVocabulary ==
    pc = "cbf" =>
        /\ Len(cbf_scores) = NMhs
        /\ \A i \in 1..NMhs :
              LET vocab  == UNION {SeqToSet(df_komunitas[j].konten_komunitas) : j \in 1..NKom}
                  profil == df_mahasiswa.rows[i].profil_mahasiswa
                  known  == SelectSeq(profil, LAMBDA word : word \in vocab)
                  struck == [columns |-> df_mahasiswa.columns,
                             rows    |-> <<[df_mahasiswa.rows[i] EXCEPT !.profil_mahasiswa = known]>>]
              IN  /\ Len(cbf_scores[i]) = NKom
                  /\ cbf_scores[i] = CbfScores(struck, df_komunitas)[1]
                  /\ known = <<>> => \A j \in 1..NKom : cbf_scores[i][j] = 0

\* a profile with a word of the vocabulary and a word outside it, scored
\* above 0, next to a profile made of outside words only
C20_Witness ==
    /\ pc = "cbf"
    /\ \E i, k \in 1..NMhs :
          LET vocab == UNION {SeqToSet(df_komunitas[j].konten_komunitas) : j \in 1..NKom}
              words(x) == SeqToSet(df_mahasiswa.rows[x].profil_mahasiswa)
          IN  /\ words(i) \cap vocab # {} /\ words(i) \ vocab # {}
              /\ \E j \in 1..NKom : cbf_scores[i][j] > 0
              /\ words(k) # {} /\ words(k) \cap vocab = {}
              /\ \A j \in 1..NKom : cbf_scores[k][j] = 0

(***************************************************************************)
(* C21.  The two scorers are order-independent: computing CF (rating       *)
(* standardization included) before CBF gives the same raw CBF matrix and  *)
(* the same raw CF matrix as computing it after CBF.  Stated on the state  *)
(* the CBF stage leaves: for every order list(set(...)) may yield, the CBF *)
(* matrix computed on the tables as rating standardization leaves them is  *)
(* the CBF matrix computed before it, and the CF stage gives the same      *)
(* outcome with either of them.  Rating standardization writes the         *)
(* catalogue the content scorer reads, and the CF matrix takes its shape   *)
(* from the CBF matrix.                                                    *)
(***************************************************************************)
C21_ScorersOrderIndependent ==
    pc = "cbf" =>
        LET cols == OriginalRatingCols(df_mahasiswa)
        IN  \A o \in UniqueKomunitasOrders(cols) :
                LET st        == StandardizeRatingColumns(df_mahasiswa, df_komunitas, cols, o)
                    cbf_after == CbfScores(st.df_mahasiswa, st.df_komunitas)
                    cf(cbf)   == CfStage(st.df_mahasiswa, st.df_komunitas,
                                         st.standardized_rating_cols, cols, cbf)
                IN  /\ cbf_after = cbf_scores
                    /\ cf(cbf_after).raises = cf(cbf_scores).raises
                    /\ cf(cbf_after).cf_scores = cf(cbf_scores).cf_scores

(***************************************************************************)
(* C22.  Neither scorer modifies its inputs: no step of the run (the CBF   *)
(* stage, rating standardization, the CF stage) changes the community      *)
(* table (same rows, same order, same field values), and none changes the  *)
(* rows of the student table or the value of a cell of a column the table  *)
(* had before the step.  Rating standardization appends communities to the *)
(* catalogue and overwrites ids.                                           *)
(***************************************************************************)
C22_InputsUnmodified ==
    [][ /\ df_komunitas' = df_komunitas
        /\ Len(df_mahasiswa'.rows) = Len(df_mahasiswa.rows)
        /\ \A i \in 1..Len(df_mahasiswa.rows) :
              /\ df_mahasiswa'.rows[i].profil_mahasiswa = df_mahasiswa.rows[i].profil_mahasiswa
              /\ \A c \in 1..Len(df_mahasiswa.columns) :
                    df_mahasiswa'.rows[i].cell[df_mahasiswa.columns[c]]
                        = df_mahasiswa.rows[i].cell[df_mahasiswa.columns[c]] ]_vars

(***************************************************************************)
(* C23.  Normalisation and blending leave their inputs unchanged: from the *)
(* moment the CF stage has completed no step changes the raw CBF and CF    *)
(* matrices, from the moment the normaliser has run no step changes the    *)
(* normalised matrices, and ranking does not change the blended matrix --  *)
(* in the all-zero pass-through case as in any other; at the end of the    *)
(* run the raw, the normalised and the blended matrices all exist, one row *)
(* per student each.                                                       *)
(***************************************************************************)
C23_StagesKeepInputs ==
    /\ [][ /\ pc \in {"cf", "normalized", "hybrid"} =>
                 cbf_scores' = cbf_scores /\ cf_scores' = cf_scores
           /\ pc \in {"normalized", "hybrid"} =>
                 cbf_scores_norm' = cbf_scores_norm /\ cf_scores_norm' = cf_scores_norm
           /\ pc = "hybrid" => hybrid_scores' = hybrid_scores ]_vars
    /\ [](Ranked =>
             \A m \in {cbf_scores, cf_scores, cbf_scores_norm, cf_scores_norm, hybrid_scores} :
                 /\ Len(m) = NMhs
                 /\ \A i \in 1..NMhs : Len(m[i]) = NKom)

\* a finished run in which the normaliser rescaled the CBF matrix and passed
\* the all-zero CF matrix through, raw and normalised CBF both still there
C23_Witness ==
    /\ Ranked
    /\ HasNonzero(cbf_scores)
    /\ cbf_scores_norm # cbf_scores
    /\ ~ HasNonzero(cf_scores)
    /\ cf_scores_norm = cf_scores
    /\ hybrid_scores # cbf_scores_norm

\* the stage a run has completed last, and the stage that may follow it; a
\* failed run has no next stage
StageOrder == <<"loaded", "cbf", "standardized", "cf", "normalized", "hybrid", "done">>

StageNo(p) == IndexOf(StageOrder, p)

(***************************************************************************)
(* C24.  Stage ordering: every step of a run is the next stage of the      *)
(* chain CBF -> (rating standardization, CF) -> Normalize -> Blend -> Rank *)
(* (or the failure of that stage), so each stage executes at most once and *)
(* in this order; the normaliser starts only when both raw matrices exist, *)
(* the blender only when both normalised matrices exist, and the ranker    *)
(* only when the hybrid matrix exists.                                     *)
(***************************************************************************)
C24_StageOrdering ==
    [][ /\ pc \in SeqToSet(StageOrder) \ {"done"}
        /\ \/ pc' = StageOrder[StageNo(pc) + 1]
           \/ pc' = "error"
        /\ pc' = "cf" => cbf_scores # <<>>
        /\ pc' = "normalized" => cbf_scores # <<>> /\ cf_scores # <<>>
        /\ pc' = "hybrid" => cbf_scores_norm # <<>> /\ cf_scores_norm # <<>>
        /\ pc' = "done" => hybrid_scores # <<>> ]_vars

\* a run that went through the five stages, the CF scorer having computed
\* predictions
C24_Witness ==
    /\ Ranked
    /\ HasNonzero(cf_scores)
    /\ cbf_scores # <<>> /\ cbf_scores_norm # <<>> /\ cf_scores_norm # <<>>
    /\ hybrid_scores # <<>>
    /\ rekos # <<>>

C26_DetailListIsTableRows ==
    Ranked =>
        /\ Len(recommendations) = Len(rekos)
        /\ \A i \in 1..Len(rekos) :
              /\ Len(recommendations[i]) <= top_n
              /\ recommendations[i] = [r \in 1..Len(rekos[i]) |-> rekos[i][r].id_komunitas]

(***************************************************************************)
(* C27.  No cross-talk in the single-student fallback: the raw CF score of *)
(* community j depends only on the rating column that refers to community  *)
(* j.  With one student, whatever rating 0..5 is put in a rating column    *)
(* that refers to another community -- also one whose name contains the id *)
(* of j as a substring -- the CF stage gives community j the same score.   *)
(* The program takes every column whose name contains the id, and the last *)
(* such column wins.                                                       *)
(***************************************************************************)
C27_NoCrossTalk ==
    (pc = "cf" /\ NMhs = 1) =>
        \A j \in 1..Len(cf_scores[1]) :
            \A c \in (1..Len(original_rating_cols)) \ RefersTo(j) :
                \A v \in 0..MaxRating :
                    LET col   == original_rating_cols[c]
                        other == [df_mahasiswa EXCEPT !.rows[1].cell[col] = v]
                    IN  CfStage(other, df_komunitas, standardized_rating_cols,
                                original_rating_cols, cbf_scores).cf_scores[1][j]
                            = cf_scores[1][j]

\* student k's rating of the community at catalogue position j as the CF
\* prediction reads it: the entry of the rating matrix in the column
\* Rating_<id of j>, 0 when the matrix has no such column
MatrixRating(k, j) ==
    LET col == StdCol(df_komunitas[j].id_komunitas)
    IN  IF col \in SeqToSet(standardized_rating_cols)
        THEN rating_matrix[k][ColIdx(standardized_rating_cols, col)]
        ELSE 0

(***************************************************************************)
(* C28.  Bound on the multi-student CF predictions: with all ratings in    *)
(* [0,5] and at least 2 students, for every student i and community j     *)
(*   0 <= CF[i,j] <= max over the students k # i of rating(k,j) <= 5       *)
(* (scores in units of 1/ScoreScale).                                      *)
(***************************************************************************)
C28_CfBounded ==
    (pc = "cf" /\ NMhs >= 2) =>
        \A i \in 1..NMhs : \A j \in 1..Len(cf_scores[i]) :
            /\ 0 <= cf_scores[i][j]
            /\ \E k \in (1..NMhs) \ {i} :
                  /\ cf_scores[i][j] <= MatrixRating(k, j) * ScoreScale
                  /\ MatrixRating(k, j) <= MaxRating

\* a prediction strictly inside the bounds, from a peer of similarity below 1
\* who rated the community above 0, next to a prediction of 0
C28_Witness ==
    /\ pc = "cf"
    /\ user_sim # <<>>
    /\ \E i, k \in 1..NMhs : \E j, l \in 1..Len(cf_scores[i]) :
          /\ i # k
          /\ user_sim[i][k] < SimScale
          /\ MatrixRating(k, j) > 0
          /\ cf_scores[i][j] > 0
          /\ cf_scores[i][j] < MatrixRating(k, j) * ScoreScale
          /\ cf_scores[k][l] = 0

\* the student table of the input carries no rating column at all
NoRatingColumn ==
    IF pc \in {"loaded", "cbf"} THEN OriginalRatingCols(df_mahasiswa) = <<>>
    ELSE original_rating_cols = <<>>

\* the list of student i is a ranking by normalised CBF score: ordered by
\* non-increasing score, no community left out scoring above a listed one
RankedByCbf(i) ==
    /\ \A r \in 1..(Len(rekos[i]) - 1) :
          cbf_scores_norm[i][rekos[i][r + 1].idx] <= cbf_scores_norm[i][rekos[i][r].idx]
    /\ \A j \in 1..Len(cbf_scores_norm[i]) : \A r \in 1..Len(rekos[i]) :
          ~ InList(i, j) => cbf_scores_norm[i][j] <= cbf_scores_norm[i][rekos[i][r].idx]

\* what both forms of the claim say up to the blend: no stage fails, the CF
\* matrices are zero, the blend is w * CBF_norm
NoRatingRun ==
    /\ pc # "error"
    /\ pc \in {"cf", "normalized", "hybrid", "done"} => ~ HasNonzero(cf_scores)
    /\ Normalized => ~ HasNonzero(cf_scores_norm) /\ Len(cf_scores_norm) = NMhs
    /\ Blended =>
          \A i \in 1..Len(hybrid_scores) : \A j \in 1..Len(hybrid_scores[i]) :
              hybrid_scores[i][j] = alpha * cbf_scores_norm[i][j]

=============================================================================
